---- MODULE Spec2Model ----
(***************************************************************************)
(* Dispersion Strategy Dashboard (src/Final/app_v3.py).                    *)
(*                                                                         *)
(* The dashboard is a script that is re-run from top to bottom on every    *)
(* user interaction.  Its inputs are the rows of positions_log.csv (read   *)
(* once, then cached), the slider's date range and the point selected on   *)
(* the cumulative PnL chart.  One run computes the PnL engine, the net     *)
(* greeks with their hedge flags, the window metrics, the daily change     *)
(* report and the positions snapshot.                                      *)
(*                                                                         *)
(* Numbers: quantities, prices and greeks are integers, so sums and        *)
(* products are exact.  A pandas value that may be missing is a sequence   *)
(* of length 0 (NaN) or 1.  A quotient is a float record [n, d]: n/d in    *)
(* lowest terms with d > 0, or d = 0 for NaN (n = 0), +inf (n = 1) and     *)
(* -inf (n = -1), which is what float division by zero yields in pandas.   *)
(*                                                                         *)
(* Not modelled: the daily returns, the Sharpe ratio and the maximum       *)
(* drawdown (lines 177-192), which need a square root and a standard       *)
(* deviation and which no statement below reads, and the styling of the    *)
(* charts and tables.                                                      *)
(***************************************************************************)
EXTENDS Integers, Sequences, FiniteSets, TLC

\* ---------------------------------------------------------------- bounds
MaxDate == 3
MaxRows == 3
MaxQty == 2
MaxPrice == 2

\* ---------------------------------------------------- program constants
SPY_HEDGE_STOCK == "SPY_HEDGE_STOCK"
SPY == "SPY"
\* 1e-8, the tolerance of the vega-hedge comparison, as 1 / TOL_DEN
TOL_DEN == 100000000

\* ------------------------------------------------------------ input sets
\* Tickers in the order sort_values gives them (alphabetical).
TickerOrder == <<"AAPL_C", "SPY_C", SPY_HEDGE_STOCK>>
Tickers == {TickerOrder[i] : i \in DOMAIN TickerOrder}
UnderlyingOf == [t \in Tickers |-> IF t = "AAPL_C" THEN "AAPL" ELSE SPY]
UnderlyingOrder == <<"AAPL", SPY>>
\* The type column is free text in the csv; "other" stands for any value
\* that is neither "long" nor "short".
Types == {"long", "short", "other"}
Dates == 1..MaxDate
Quantities == 1..MaxQty
Prices == 1..MaxPrice
\* <<delta, vega>> of an instrument on a day: the hedge stock has delta 1 and
\* no vega; an option's greeks move with the day
GreekOf(t, d) ==
    IF t = SPY_HEDGE_STOCK THEN <<1, 0>>
    ELSE IF t = "SPY_C" THEN <<0 - d, d + 1>>
    ELSE <<d + 1, 3>>

\* --------------------------------------------------------------- helpers
NaN == <<>>
Num(x) == <<x>>
isna(x) == x = NaN
\* arithmetic on possibly missing numbers: NaN propagates
NSub(a, b) == IF isna(a) \/ isna(b) THEN NaN ELSE Num(a[1] - b[1])
NMul(a, b) == IF isna(a) \/ isna(b) THEN NaN ELSE Num(a[1] * b[1])
NAdd(a, b) == IF isna(a) \/ isna(b) THEN NaN ELSE Num(a[1] + b[1])
NNeg(a) == IF isna(a) THEN NaN ELSE Num(0 - a[1])
\* Series.sum() skips NaN
SkipNa(a) == IF isna(a) THEN 0 ELSE a[1]

Abs(x) == IF x < 0 THEN 0 - x ELSE x
Sgn(x) == IF x > 0 THEN 1 ELSE IF x < 0 THEN -1 ELSE 0
Min(S) == CHOOSE x \in S : \A y \in S : x <= y
Max(S) == CHOOSE x \in S : \A y \in S : x >= y

\* The books the model is run on.  Each lets the columns its views read vary
\* and pins the others.
\*   Pnl:      two instruments, long and short rows, every price
\*   Exposure: every instrument (the hedge stock too), long and short rows,
\*             one price
\*   Quality:  one instrument, rows of every type, every price
PnlBook ==
    [tickers |-> {"AAPL_C", "SPY_C"}, types |-> {"long", "short"},
     prices |-> Prices]
ExposureBook ==
    [tickers |-> Tickers, types |-> {"long", "short"}, prices |-> {Min(Prices)}]
QualityBook ==
    [tickers |-> {"AAPL_C"}, types |-> Types, prices |-> Prices]

RECURSIVE Gcd(_, _)
Gcd(a, b) == IF b = 0 THEN a ELSE Gcd(b, a % b)

RECURSIVE SumSeq(_)
SumSeq(s) == IF s = <<>> THEN 0 ELSE Head(s) + SumSeq(Tail(s))

RECURSIVE SumFn(_, _)
SumFn(f, S) ==
    IF S = {} THEN 0
    ELSE LET x == CHOOSE x \in S : TRUE IN f[x] + SumFn(f, S \ {x})

\* the elements of a set of integers in ascending order (a sorted index)
RECURSIVE SortedSeq(_)
SortedSeq(S) ==
    IF S = {} THEN <<>> ELSE <<Min(S)>> \o SortedSeq(S \ {Min(S)})

IndexOf(s, x) == CHOOSE i \in DOMAIN s : s[i] = x
TickerRank(t) == IndexOf(TickerOrder, t)
UnderlyingRank(u) == IndexOf(UnderlyingOrder, u)

\* float division a / b of two numbers
FDiv(a, b) ==
    IF b = 0 THEN [n |-> Sgn(a), d |-> 0]
    ELSE LET g == Gcd(Abs(a), Abs(b))
         IN [n |-> (Sgn(b) * a) \div g, d |-> Abs(b) \div g]
\* float f times the integer k /= 0
FScale(f, k) ==
    IF f.d = 0 THEN [n |-> f.n * Sgn(k), d |-> 0]
    ELSE LET g == Gcd(Abs(f.n * k), f.d)
         IN [n |-> (f.n * k) \div g, d |-> f.d \div g]
\* float f minus the integer k
FMinus(f, k) == IF f.d = 0 THEN f ELSE [n |-> f.n - k * f.d, d |-> f.d]
FNaN == [n |-> 0, d |-> 0]
FOne == [n |-> 1, d |-> 1]
\* IEEE equality: NaN equals nothing, itself included
FEq(f, g) == f # FNaN /\ g # FNaN /\ f = g

\* ------------------------------------------------------------ load_data
Row(d, t, ty, q, p) ==
    [date |-> d, ticker |-> t, underlying |-> UnderlyingOf[t], type |-> ty,
     quantity |-> q, price_today |-> p, delta |-> GreekOf(t, d)[1],
     vega |-> GreekOf(t, d)[2], mv |-> 0]

RowBefore(a, b) ==
    \/ a.date < b.date
    \/ a.date = b.date /\ TickerRank(a.ticker) < TickerRank(b.ticker)

\* insert row r after every row that does not sort after it (stable)
RECURSIVE InsertRow(_, _)
InsertRow(s, r) ==
    IF s = <<>> THEN <<r>>
    ELSE IF RowBefore(r, Head(s)) THEN <<r>> \o s
    ELSE <<Head(s)>> \o InsertRow(Tail(s), r)

RECURSIVE sort_values(_)
sort_values(rows) ==
    IF rows = <<>> THEN <<>>
    ELSE InsertRow(sort_values(SubSeq(rows, 1, Len(rows) - 1)), rows[Len(rows)])

load_data(file) ==
    sort_values([i \in DOMAIN file |->
                    [file[i] EXCEPT !.mv = file[i].price_today * file[i].quantity]])

all_dates(p) == {p[i].date : i \in DOMAIN p}

\* ------------------------------------------------------ daily PnL engine
RowsAt(p, d, t) == SelectSeq(p, LAMBDA r : r.date = d /\ r.ticker = t)
Keys(p) == {<<p[i].date, p[i].ticker>> : i \in DOMAIN p}
QtyOf(rows) == SumSeq([i \in DOMAIN rows |-> rows[i].quantity])

\* groupby([date, ticker])["price_today"].first()
price(p) == [k \in Keys(p) |-> RowsAt(p, k[1], k[2])[1].price_today]

TypedKeys(p, ty) ==
    {<<p[i].date, p[i].ticker>> : i \in {j \in DOMAIN p : p[j].type = ty}}
QtyByKey(p, ty) ==
    [k \in TypedKeys(p, ty) |->
        QtyOf(SelectSeq(RowsAt(p, k[1], k[2]), LAMBDA r : r.type = ty))]
long_qty(p) == QtyByKey(p, "long")
short_qty(p) == QtyByKey(p, "short")

\* pd.concat([...], axis=1).fillna(0.0)
fillna0(f, k) == IF k \in DOMAIN f THEN f[k] ELSE 0

\* groupby("ticker")[col].shift(1): the key of the ticker's previous row
\* variant: a shift over the calendar of all tickers instead of the ticker's
\* own records (the statement of C5 tells the two apart)
ShiftKey_mut(keys, k) ==
    LET before == {j[1] : j \in {i \in keys : i[1] < k[1]}}
    IN IF before = {} THEN NaN
       ELSE IF <<Max(before), k[2]>> \in keys THEN <<<<Max(before), k[2]>>>>
       ELSE NaN
ShiftKey(keys, k) ==
    LET earlier == {j \in keys : j[2] = k[2] /\ j[1] < k[1]}
    IN IF earlier = {} THEN NaN
       ELSE <<CHOOSE j \in earlier : \A i \in earlier : i[1] <= j[1]>>

daily_positions(p) ==
    LET pr == price(p)
        lq == long_qty(p)
        sq == short_qty(p)
        keys == Keys(p)
    IN [k \in keys |->
          LET pk == ShiftKey(keys, k)
              prev_long_qty == IF isna(pk) THEN NaN ELSE Num(fillna0(lq, pk[1]))
              prev_short_qty == IF isna(pk) THEN NaN ELSE Num(fillna0(sq, pk[1]))
              prev_price == IF isna(pk) THEN NaN ELSE Num(pr[pk[1]])
              dP == NSub(Num(pr[k]), prev_price)
              mask_first == isna(prev_price)
              long_pnl == IF mask_first THEN Num(0) ELSE NMul(prev_long_qty, dP)
              short_pnl ==
                  IF mask_first THEN Num(0) ELSE NMul(NNeg(prev_short_qty), dP)
          IN [price_today |-> pr[k],
              long_qty |-> fillna0(lq, k),
              short_qty |-> fillna0(sq, k),
              prev_long_qty |-> prev_long_qty,
              prev_short_qty |-> prev_short_qty,
              prev_price |-> prev_price,
              long_pnl |-> long_pnl,
              short_pnl |-> short_pnl,
              total_pnl |-> NAdd(long_pnl, short_pnl)]]

\* daily_positions.groupby("date")[col].sum()
SumByDate(dp, col) ==
    [d \in {k[1] : k \in DOMAIN dp} |->
        SumFn([k \in DOMAIN dp |-> SkipNa(dp[k][col])],
              {k \in DOMAIN dp : k[1] = d})]
daily_long_pnl_all(dp) == SumByDate(dp, "long_pnl")
daily_short_pnl_all(dp) == SumByDate(dp, "short_pnl")
daily_total_pnl_all(dp) == SumByDate(dp, "total_pnl")

\* variant: the capital base taken on the latest date (the statement of C4
\* tells the two apart)
first_date_all_mut(dp) == Max({k[1] : k \in DOMAIN dp})
first_date_all(dp) == Min({k[1] : k \in DOMAIN dp})

capital_base_all(dp) ==
    LET first_day_all == {k \in DOMAIN dp : k[1] = first_date_all(dp)}
        long_initial_cap_all ==
            SumFn([k \in DOMAIN dp |-> dp[k].long_qty * dp[k].price_today],
                  first_day_all)
        short_initial_cap_all ==
            SumFn([k \in DOMAIN dp |-> dp[k].short_qty * dp[k].price_today],
                  first_day_all)
    IN long_initial_cap_all + short_initial_cap_all

\* Series.cumsum() of a date-indexed series
RECURSIVE CumSeq(_, _)
CumSeq(s, acc) ==
    IF s = <<>> THEN <<>> ELSE <<acc + Head(s)>> \o CumSeq(Tail(s), acc + Head(s))
cumsum(series) ==
    LET idx == SortedSeq(DOMAIN series)
        run == CumSeq([i \in DOMAIN idx |-> series[idx[i]]], 0)
    IN [d \in DOMAIN series |-> run[IndexOf(idx, d)]]

equity_all(dp) ==
    LET cs == cumsum(daily_total_pnl_all(dp))
        base == capital_base_all(dp)
    IN [d \in DOMAIN cs |-> base + cs[d]]

\* -------------------------------------------- net greeks and hedge flags
\* variant: every row signed +1 (the statement of C2 tells the two apart)
sign_mut(ty) == 1
sign(ty) == IF ty = "short" THEN -1 ELSE 1

pos_greeks(p) ==
    [i \in DOMAIN p |->
        LET qty_signed == p[i].quantity * sign(p[i].type)
        IN [date |-> p[i].date, ticker |-> p[i].ticker,
            underlying |-> p[i].underlying,
            sign |-> sign(p[i].type),
            qty_signed |-> qty_signed,
            delta_exposure |-> p[i].delta * qty_signed,
            vega_exposure |-> p[i].vega * qty_signed]]

\* rows.groupby("date")[col].sum()
GroupSum(rows, col) ==
    [d \in {rows[i].date : i \in DOMAIN rows} |->
        SumSeq([i \in DOMAIN rows |->
                   IF rows[i].date = d THEN rows[i][col] ELSE 0])]

net_greeks(pg) ==
    LET nd == GroupSum(pg, "delta_exposure")
        nv == GroupSum(pg, "vega_exposure")
    IN [d \in DOMAIN nd |-> [net_delta |-> nd[d], net_vega |-> nv[d]]]

\* Series.shift(): each date takes the value of the date before it in the index
shift(series) ==
    [d \in DOMAIN series |->
        LET before == {e \in DOMAIN series : e < d}
        IN IF before = {} THEN NaN ELSE Num(series[Max(before)])]

\* Series.ne(other): elementwise !=, and a NaN differs from everything
ne(a, b) == Num(IF isna(a) \/ isna(b) THEN TRUE ELSE a[1] # b[1])
\* series > 1e-8: a comparison with NaN is False
\* variant: any change of the quantity, a decrease included (the statement
\* of C6 tells the two apart)
gt_tol_mut(a) == Num(IF isna(a) THEN FALSE ELSE a[1] # 0)
gt_tol(a) == Num(IF isna(a) THEN FALSE ELSE a[1] * TOL_DEN > 1)
\* Series.fillna(value)
fillna(a, v) == IF isna(a) THEN v ELSE a[1]
\* Series.reindex(index, fill_value=fill)
reindex(series, index, fill) ==
    [d \in index |-> IF d \in DOMAIN series THEN series[d] ELSE fill]

spy_hedge(pg) ==
    GroupSum(SelectSeq(pg, LAMBDA r : r.ticker = SPY_HEDGE_STOCK), "qty_signed")

delta_hedge_flags(pg) ==
    LET sh == spy_hedge(pg)
        prev == shift(sh)
    IN [d \in DOMAIN sh |-> fillna(ne(Num(sh[d]), prev[d]), FALSE)]

spy_opts(pg) ==
    SelectSeq(pg, LAMBDA r : r.underlying = SPY /\ r.ticker # SPY_HEDGE_STOCK)

vega_hedge_flags(pg) ==
    IF spy_opts(pg) # <<>>
    THEN LET total_spy_qty == GroupSum(spy_opts(pg), "qty_signed")
             prev == shift(total_spy_qty)
             spy_qty_diff ==
                 [d \in DOMAIN total_spy_qty |->
                     NSub(Num(total_spy_qty[d]), prev[d])]
         IN [d \in DOMAIN total_spy_qty |-> fillna(gt_tol(spy_qty_diff[d]), FALSE)]
    ELSE [d \in DOMAIN net_greeks(pg) |-> FALSE]

net_greeks_df(p) ==
    LET pg == pos_greeks(p)
        ng == net_greeks(pg)
        dh == reindex(delta_hedge_flags(pg), DOMAIN ng, FALSE)
        vh == reindex(vega_hedge_flags(pg), DOMAIN ng, FALSE)
    IN [d \in DOMAIN ng |->
          [net_delta |-> ng[d].net_delta, net_vega |-> ng[d].net_vega,
           delta_hedge |-> dh[d], vega_hedge |-> vh[d]]]

\* ------------------------------------------------------- window metrics
mask_window(index, range) == {d \in index : d >= range[1] /\ d <= range[2]}

\* series.loc[mask_window]
Slice(series, mask) == [d \in mask |-> series[d]]

\* equity_window / equity_window.iloc[0]
equity_rebased(ew) == [d \in DOMAIN ew |-> FDiv(ew[d], ew[Min(DOMAIN ew)])]

\* (equity_rebased.iloc[-1] - 1.0) * 100.0
total_return_pct(er) == FScale(FMinus(er[Max(DOMAIN er)], 1), 100)

\* cum_pnl / equity0_window * 100.0
pct_leg(cum, equity0_window) ==
    [d \in DOMAIN cum |-> FScale(FDiv(cum[d], equity0_window), 100)]

\* ------------------------------------------------------- inspection date
\* min(available_dates, key=distance to the clicked date): the first of the
\* nearest dates
nearest(available_dates, clicked_date) ==
    LET dist(d) == Abs(d - clicked_date)
        best == {d \in available_dates :
                    \A e \in available_dates : dist(d) <= dist(e)}
    IN Min(best)

\* ev: the selected points of the chart, none or one
inspect_date(available_dates, ev) ==
    IF ev # <<>> THEN nearest(available_dates, ev[1]) ELSE Max(available_dates)

\* -------------------------------------------------- daily change report
pos_dates(p) == SortedSeq(all_dates(p))

\* the rows of one day with their signed columns (long = +, short = -)
SignedRows(p, d) ==
    LET rows == SelectSeq(p, LAMBDA r : r.date = d)
    IN [i \in DOMAIN rows |->
          LET sg == sign(rows[i].type)
              qty_signed == rows[i].quantity * sg
          IN [date |-> rows[i].date, ticker |-> rows[i].ticker,
              underlying |-> rows[i].underlying,
              price_today |-> rows[i].price_today,
              sign |-> sg,
              qty_signed |-> qty_signed,
              delta_signed |-> rows[i].delta * sg,
              vega_signed |-> rows[i].vega * sg,
              mv_signed |-> rows[i].price_today * qty_signed]]

ColSum(rows, col) == SumSeq([i \in DOMAIN rows |-> rows[i][col]])
Last(rows) == rows[Len(rows)]

\* today.groupby("ticker").agg(...)
today_agg(today) ==
    [t \in {today[i].ticker : i \in DOMAIN today} |->
        LET g == SelectSeq(today, LAMBDA r : r.ticker = t)
        IN [underlying_tdy |-> Last(g).underlying,
            qty_tdy |-> ColSum(g, "qty_signed"),
            price_today_tdy |-> Last(g).price_today,
            delta_tdy |-> ColSum(g, "delta_signed"),
            vega_tdy |-> ColSum(g, "vega_signed"),
            value_today |-> ColSum(g, "mv_signed")]]

\* prev.groupby("ticker").agg(...)
prev_agg(prev) ==
    [t \in {prev[i].ticker : i \in DOMAIN prev} |->
        LET g == SelectSeq(prev, LAMBDA r : r.ticker = t)
        IN [qty_prv |-> ColSum(g, "qty_signed"),
            price_today_prv |-> Last(g).price_today,
            delta_prv |-> ColSum(g, "delta_signed"),
            vega_prv |-> ColSum(g, "vega_signed"),
            value_prev |-> ColSum(g, "mv_signed")]]

classify_net_type(q) ==
    IF q > 0 THEN "net_long" ELSE IF q < 0 THEN "net_short" ELSE "flat"

\* today_agg.join(prev_agg, how="left"), the fills and the changes
merged(ta, pa) ==
    [t \in DOMAIN ta |->
        LET joined(col) == IF t \in DOMAIN pa THEN Num(pa[t][col]) ELSE NaN
            qty_prv == fillna(joined("qty_prv"), 0)
            price_today_prv ==
                fillna(joined("price_today_prv"), ta[t].price_today_tdy)
            delta_prv == fillna(joined("delta_prv"), 0)
            vega_prv == fillna(joined("vega_prv"), 0)
            value_prev == fillna(joined("value_prev"), 0)
            price_change == ta[t].price_today_tdy - price_today_prv
        IN [underlying_tdy |-> ta[t].underlying_tdy,
            qty_tdy |-> ta[t].qty_tdy,
            delta_tdy |-> ta[t].delta_tdy,
            vega_tdy |-> ta[t].vega_tdy,
            value_today |-> ta[t].value_today,
            qty_prv |-> qty_prv,
            value_prev |-> value_prev,
            price_change |-> price_change,
            quantity_change |-> ta[t].qty_tdy - qty_prv,
            delta_change |-> ta[t].delta_tdy - delta_prv,
            vega_change |-> ta[t].vega_tdy - vega_prv,
            value_change |-> qty_prv * price_change,
            net_type_tdy |-> classify_net_type(ta[t].qty_tdy)]]

\* merged.sort_values("value_change", ascending=False): the tickers, largest
\* value_change first, equal ones in index (ticker) order
RECURSIVE InsertTicker(_, _, _)
InsertTicker(s, t, m) ==
    IF s = <<>> THEN <<t>>
    ELSE IF m[t].value_change > m[Head(s)].value_change THEN <<t>> \o s
    ELSE <<Head(s)>> \o InsertTicker(Tail(s), t, m)

RECURSIVE SortTickers(_, _)
SortTickers(ts, m) ==
    IF ts = <<>> THEN <<>>
    ELSE InsertTicker(SortTickers(SubSeq(ts, 1, Len(ts) - 1), m), ts[Len(ts)], m)

merged_sorted(m) ==
    SortTickers(SelectSeq(TickerOrder, LAMBDA t : t \in DOMAIN m), m)

\* the report of inspection date d: NaN when there is no previous day
\* variant: the report suppressed when the tickers of the date have no earlier
\* record of their own (the statement of C8 tells the two apart)
change_report_mut(p, d) ==
    LET pd == pos_dates(p)
        own == {p[i].ticker : i \in {j \in DOMAIN p : p[j].date = d}}
        seen == {p[i].ticker : i \in {j \in DOMAIN p : p[j].date < d}}
    IN IF d \notin all_dates(p) \/ own \cap seen = {} THEN NaN
       ELSE LET idx == IndexOf(pd, d)
                prev_date == pd[idx - 1]
                m == merged(today_agg(SignedRows(p, d)),
                            prev_agg(SignedRows(p, prev_date)))
            IN Num([prev_date |-> prev_date, merged |-> m,
                    merged_sorted |-> merged_sorted(m)])
change_report(p, d) ==
    LET pd == pos_dates(p)
    IN IF d \notin all_dates(p) \/ IndexOf(pd, d) = 1 THEN NaN
       ELSE LET idx == IndexOf(pd, d)
                prev_date == pd[idx - 1]
                m == merged(today_agg(SignedRows(p, d)),
                            prev_agg(SignedRows(p, prev_date)))
            IN Num([prev_date |-> prev_date, merged |-> m,
                    merged_sorted |-> merged_sorted(m)])

\* --------------------------------------------------- positions snapshot
RECURSIVE InsertByUnderlying(_, _)
InsertByUnderlying(s, r) ==
    IF s = <<>> THEN <<r>>
    ELSE IF UnderlyingRank(r.underlying) < UnderlyingRank(Head(s).underlying)
         THEN <<r>> \o s
    ELSE <<Head(s)>> \o InsertByUnderlying(Tail(s), r)

RECURSIVE SortByUnderlying(_)
SortByUnderlying(rows) ==
    IF rows = <<>> THEN <<>>
    ELSE InsertByUnderlying(SortByUnderlying(SubSeq(rows, 1, Len(rows) - 1)),
                            rows[Len(rows)])

\* the displayed rows: delta and vega overwritten with their signed values
pos_today(p, d) ==
    LET rows == SelectSeq(p, LAMBDA r : r.date = d)
    IN SortByUnderlying(
          [i \in DOMAIN rows |->
              [ticker |-> rows[i].ticker, underlying |-> rows[i].underlying,
               type |-> rows[i].type, quantity |-> rows[i].quantity,
               price_today |-> rows[i].price_today,
               delta |-> rows[i].delta * sign(rows[i].type),
               vega |-> rows[i].vega * sign(rows[i].type),
               mv |-> rows[i].mv]])

\* ---------------------------------------------------------------- state
\* csv        rows of positions_log.csv, in file order
\* pos        the cached result of load_data()
\* pc         "file" before the first run, then how the last run ended:
\*            "rendered", "stopped" (st.stop) or "crashed" (uncaught exception)
\* date_range the slider's value, <<>> before the slider exists
\* event      the points selected on the cumulative PnL chart: none, or one date
\* run        the script's globals after the last run
\* views      what the last run put on the page
VARIABLES csv, pos, pc, date_range, event, run, views

vars == <<csv, pos, pc, date_range, event, run, views>>

\* a global the run has not assigned
Unset == <<>>

\* lines 58-154: the computations over the full history
FullHistory(p) ==
    LET dp == daily_positions(p)
    IN [daily_positions |-> dp,
        daily_long_pnl_all |-> daily_long_pnl_all(dp),
        daily_short_pnl_all |-> daily_short_pnl_all(dp),
        daily_total_pnl_all |-> daily_total_pnl_all(dp),
        capital_base_all |-> capital_base_all(dp),
        equity_all |-> equity_all(dp),
        net_greeks_df |-> net_greeks_df(p)]

NoWindow ==
    [equity_window |-> Unset, daily_total_pnl |-> Unset,
     net_greeks_window |-> Unset, equity_rebased |-> Unset,
     total_return_pct |-> Unset, equity0_window |-> Unset,
     cum_total_pnl |-> Unset, cum_long_pnl |-> Unset, cum_short_pnl |-> Unset,
     cum_total_pnl_pct_leg |-> Unset, cum_long_pnl_pct_leg |-> Unset,
     cum_short_pnl_pct_leg |-> Unset,
     inspect_date |-> Unset, changes |-> Unset, pos_today |-> Unset]

\* lines 158-528: the window metrics and the views of the inspection date
Window(p, full, range, ev) ==
    LET mask == mask_window(DOMAIN full.equity_all, range)
        ew == Slice(full.equity_all, mask)
        er == equity_rebased(ew)
        equity0_window == ew[Min(mask)]
        ct == cumsum(Slice(full.daily_total_pnl_all, mask))
        cl == cumsum(Slice(full.daily_long_pnl_all, mask))
        cs == cumsum(Slice(full.daily_short_pnl_all, mask))
        id == inspect_date(mask, ev)
    IN IF mask = {}
       THEN NoWindow
       ELSE [equity_window |-> ew,
             daily_total_pnl |-> Slice(full.daily_total_pnl_all, mask),
             net_greeks_window |-> Slice(full.net_greeks_df, mask),
             equity_rebased |-> er,
             total_return_pct |-> total_return_pct(er),
             equity0_window |-> equity0_window,
             cum_total_pnl |-> ct, cum_long_pnl |-> cl, cum_short_pnl |-> cs,
             cum_total_pnl_pct_leg |-> pct_leg(ct, equity0_window),
             cum_long_pnl_pct_leg |-> pct_leg(cl, equity0_window),
             cum_short_pnl_pct_leg |-> pct_leg(cs, equity0_window),
             inspect_date |-> id,
             changes |-> change_report(p, id),
             pos_today |-> pos_today(p, id)]

\* what a run that gets past st.stop() puts on the page
Views(w) ==
    {"summary_metrics", "daily_pnl_chart", "cum_pnl_chart"}
    \cup (IF isna(w.changes) THEN {"changes_info"} ELSE {"changes_table"})
    \cup (IF w.pos_today = <<>> THEN {"positions_info"} ELSE {"positions_table"})
    \cup (IF DOMAIN w.net_greeks_window # {}
          THEN {"net_delta_chart", "net_vega_chart"} ELSE {})

NoRun == [full |-> Unset, window |-> NoWindow]

\* one run of the script, from line 156 on, over the globals of lines 58-154
Render(p, full, range, ev) ==
    \E w \in {Window(p, full, range, ev)} :
       /\ run' = [full |-> full, window |-> w]
       /\ IF w.equity_window = Unset
          THEN pc' = "stopped" /\ views' = {"error_no_equity"}
          ELSE pc' = "rendered" /\ views' = Views(w)

Init ==
    /\ csv = <<>>
    /\ pos = <<>>
    /\ pc = "file"
    /\ date_range = <<>>
    /\ event = <<>>
    /\ run = NoRun
    /\ views = {}

\* positions_log.csv is written, in date order, before the app starts; the
\* days are numbered from the first row's
WriteRow(book) ==
    /\ pc = "file"
    /\ Len(csv) < MaxRows
    /\ \E d \in Dates, t \in book.tickers, ty \in book.types,
          q \in Quantities, p \in book.prices :
          /\ (IF csv = <<>> THEN d = 1 ELSE csv[Len(csv)].date <= d)
          /\ csv' = Append(csv, Row(d, t, ty, q, p))
    /\ UNCHANGED <<pos, pc, date_range, event, run, views>>

\* first run: load_data() reads the file, the slider spans all dates, nothing
\* is selected
StartApp ==
    /\ pc = "file"
    /\ csv # <<>>
    /\ \E p \in {load_data(csv)} : \E full \in {FullHistory(p)} :
          /\ pos' = p
          /\ date_range' = <<Min(all_dates(p)), Max(all_dates(p))>>
          /\ Render(p, full, <<Min(all_dates(p)), Max(all_dates(p))>>, <<>>)
    /\ event' = <<>>
    /\ UNCHANGED csv

\* first run on a file without rows: all_dates[0] raises IndexError
StartEmpty ==
    /\ pc = "file"
    /\ csv = <<>>
    /\ pc' = "crashed"
    /\ UNCHANGED <<csv, pos, date_range, event, run, views>>

\* The user drags one handle of the slider by a day and the script runs again.
\* load_data() is cached and lines 58-154 read nothing but pos, so the run
\* assigns them the values they have.  The chart is drawn anew, without a
\* selection.
MoveSlider ==
    /\ pc \in {"rendered", "stopped"}
    /\ \E lo \in Dates, hi \in Dates :
          /\ Min(all_dates(pos)) <= lo /\ lo <= hi /\ hi <= Max(all_dates(pos))
          /\ \/ lo = date_range[1] /\ Abs(hi - date_range[2]) = 1
             \/ hi = date_range[2] /\ Abs(lo - date_range[1]) = 1
          /\ date_range' = <<lo, hi>>
          /\ Render(pos, run.full, <<lo, hi>>, <<>>)
    /\ event' = <<>>
    /\ UNCHANGED <<csv, pos>>

\* the user selects a point of the cumulative PnL chart: the script runs again
ClickPoint ==
    /\ pc = "rendered"
    /\ \E x \in DOMAIN run.window.cum_total_pnl_pct_leg :
          /\ event # <<x>>
          /\ event' = <<x>>
          /\ Render(pos, run.full, date_range, <<x>>)
    /\ UNCHANGED <<csv, pos, date_range>>

Next ==
    \/ WriteRow(PnlBook)
    \/ StartApp
    \/ StartEmpty
    \/ MoveSlider
    \/ ClickPoint

Spec == Init /\ [][Next]_vars

NextExposure ==
    \/ WriteRow(ExposureBook)
    \/ StartApp
    \/ StartEmpty
    \/ MoveSlider
    \/ ClickPoint

SpecExposure == Init /\ [][NextExposure]_vars

NextQuality ==
    \/ WriteRow(QualityBook)
    \/ StartApp
    \/ StartEmpty
    \/ MoveSlider
    \/ ClickPoint

SpecQuality == Init /\ [][NextQuality]_vars

\* ================================================================ claims
\* The statements below read the loaded log (pos) and what the last run
\* assigned (run, views); they compute their own sums over the rows of pos.

\* a run has assigned the script's globals
Ran == pc \in {"rendered", "stopped"}

RowSum(val(_), keep(_)) ==
    SumSeq([i \in DOMAIN pos |-> IF keep(pos[i]) THEN val(pos[i]) ELSE 0])
\* -1 for a short row, +1 for every other row
RowSign(r) == IF r.type = "short" THEN -1 ELSE 1
SignedQty(r) == r.quantity * RowSign(r)
\* the date before d in the set S of dates
PrevIn(S, d) == Max({e \in S : e < d})
LogDates == {pos[i].date : i \in DOMAIN pos}
TickersOn(d) == {pos[i].ticker : i \in {j \in DOMAIN pos : pos[j].date = d}}
DatesOf(t) == {pos[i].date : i \in {j \in DOMAIN pos : pos[j].ticker = t}}
\* the price of (d, t): that of its first row
PriceAt(d, t) ==
    pos[Min({i \in DOMAIN pos : pos[i].date = d /\ pos[i].ticker = t})].price_today
SinglePrice(d, t) ==
    \A i \in DOMAIN pos :
        pos[i].date = d /\ pos[i].ticker = t => pos[i].price_today = PriceAt(d, t)
TypedQty(d, t, ty) ==
    RowSum(LAMBDA r : r.quantity,
           LAMBDA r : r.date = d /\ r.ticker = t /\ r.type = ty)

\* ---- C1
HedgeDates == DatesOf(SPY_HEDGE_STOCK)
HedgeQty(d) ==
    RowSum(SignedQty, LAMBDA r : r.date = d /\ r.ticker = SPY_HEDGE_STOCK)

\* C1: on the earliest date of the hedge instrument's own series the
\* delta-hedge flag is false; on every later date of that series it is true
\* iff the instrument's summed signed quantity differs from its value on the
\* instrument's preceding dated record.  (Stated as claimed; the code sets the
\* flag on the earliest date.)
C1_DeltaHedgeFlag ==
    Ran =>
      \A d \in HedgeDates :
         run.full.net_greeks_df[d].delta_hedge
           = (/\ d # Min(HedgeDates)
              /\ HedgeQty(d) # HedgeQty(PrevIn(HedgeDates, d)))

\* ---- C2
NetOf(d, val(_)) == RowSum(val, LAMBDA r : r.date = d)
HasReport == pc = "rendered" /\ ~isna(run.window.changes)
Report == run.window.changes[1]
ReportSum(col) ==
    SumFn([t \in DOMAIN Report.merged |-> Report.merged[t][col]],
          DOMAIN Report.merged)

C3_RebasedStartsAtOne ==
    pc = "rendered" =>
      FEq(run.window.equity_rebased[Min(DOMAIN run.window.equity_rebased)], FOne)

\* ---- C4
FirstDate == Min(LogDates)
\* long_qty * price plus short_qty * price over the tickers of the earliest date
FirstDayNotional ==
    SumFn([t \in Tickers |->
              (TypedQty(FirstDate, t, "long") + TypedQty(FirstDate, t, "short"))
                * PriceAt(FirstDate, t)],
          TickersOn(FirstDate))
PnlUpTo(d) ==
    SumFn(run.full.daily_total_pnl_all, {e \in LogDates : e <= d})

\* C4: whatever the window, capital_base is the long plus short notional of
\* the earliest date of the full history, equity(d) = capital_base + the sum of
\* total_pnl over the history dates <= d, so equity at the earliest date is
\* capital_base and equity[t] = equity[t-1] + total_pnl[t] after it; the window
\* holds exactly these values for the dates inside the range.
C4_EquityIndependentOfWindow ==
    Ran =>
      /\ run.full.capital_base_all = FirstDayNotional
      /\ DOMAIN run.full.equity_all = LogDates
      /\ \A d \in LogDates :
            /\ run.full.equity_all[d] = FirstDayNotional + PnlUpTo(d)
            /\ d = FirstDate => run.full.equity_all[d] = FirstDayNotional
            /\ d # FirstDate =>
                 run.full.equity_all[d]
                   = run.full.equity_all[PrevIn(LogDates, d)]
                       + run.full.daily_total_pnl_all[d]
      /\ pc = "rendered" =>
            /\ DOMAIN run.window.equity_window
                 = {d \in LogDates : date_range[1] <= d /\ d <= date_range[2]}
            /\ \A d \in DOMAIN run.window.equity_window :
                  run.window.equity_window[d] = run.full.equity_all[d]

\* a window that starts after the earliest date, on a day with a PnL, in a
\* history whose last day carries another notional than its first
C4_Witness ==
    /\ pc = "rendered"
    /\ date_range[1] > FirstDate
    /\ run.full.daily_total_pnl_all[Min(DOMAIN run.window.equity_window)] # 0
    /\ run.window.equity_window[Min(DOMAIN run.window.equity_window)]
         # run.full.capital_base_all

\* ---- C5
\* C5: on a ticker's first recorded date its long, short and total PnL are 0;
\* on a later date D, with D' the ticker's own latest earlier date,
\* long_pnl = long_qty(D') * (price(D) - price(D')),
\* short_pnl = -short_qty(D') * (price(D) - price(D')) and total_pnl is their
\* sum, long_qty and short_qty being the sums over the long and the short rows.
C5_PerTickerPnl ==
    Ran =>
      \A t \in Tickers : \A d \in DatesOf(t) :
         LET row == run.full.daily_positions[<<d, t>>]
         IN IF d = Min(DatesOf(t))
            THEN /\ row.long_pnl = Num(0)
                 /\ row.short_pnl = Num(0)
                 /\ row.total_pnl = Num(0)
            ELSE LET e == PrevIn(DatesOf(t), d)
                     dP == PriceAt(d, t) - PriceAt(e, t)
                     lp == TypedQty(e, t, "long") * dP
                     sp == (0 - TypedQty(e, t, "short")) * dP
                 IN /\ row.long_pnl = Num(lp)
                    /\ row.short_pnl = Num(sp)
                    /\ row.total_pnl = Num(lp + sp)

\* a ticker with a PnL on a date whose previous record of its own is older
\* than a date on which another ticker has a record
C5_Witness ==
    /\ Ran
    /\ \E t \in Tickers : \E d \in DatesOf(t) :
          /\ d # Min(DatesOf(t))
          /\ run.full.daily_positions[<<d, t>>].total_pnl # Num(0)
          /\ \E e \in LogDates : PrevIn(DatesOf(t), d) < e /\ e < d

\* ---- C6
IsSpyOption(r) == r.underlying = SPY /\ r.ticker # SPY_HEDGE_STOCK
OptionDates == {pos[i].date : i \in {j \in DOMAIN pos : IsSpyOption(pos[j])}}
OptionQty(d) == RowSum(SignedQty, LAMBDA r : r.date = d /\ IsSpyOption(r))

\* C6: the vega-hedge flag of a date is true iff the total signed quantity of
\* the rows with underlying SPY and a ticker other than SPY_HEDGE_STOCK exceeds
\* by more than the tolerance its total on the preceding date that has such
\* rows; it is false on the first such date, on dates without such rows and
\* everywhere when the history has none.
C6_VegaHedgeFlag ==
    Ran =>
      \A d \in LogDates :
         run.full.net_greeks_df[d].vega_hedge
           = (/\ d \in OptionDates
              /\ d # Min(OptionDates)
              /\ (OptionQty(d) - OptionQty(PrevIn(OptionDates, d))) * TOL_DEN > 1)

\* a flagged date whose preceding option date lies before a date without
\* option rows
C6_Witness ==
    /\ Ran
    /\ \E d \in OptionDates :
          /\ run.full.net_greeks_df[d].vega_hedge
          /\ \E e \in LogDates \ OptionDates :
                PrevIn(OptionDates, d) < e /\ e < d

\* ---- C7
Recognised(r) == r.type \in {"long", "short"}

\* C7: a row whose type is neither "long" nor "short" is rejected at load
\* time, so no run renders it, and net delta and net vega hold the signed
\* values of the long and short rows alone.  (Stated as claimed; the code
\* loads the row and gives it the sign +1.)
C7_UnknownTypeRejected ==
    Ran =>
      /\ \A i \in DOMAIN csv : Recognised(csv[i])
      /\ \A d \in LogDates :
            /\ run.full.net_greeks_df[d].net_delta
                 = RowSum(LAMBDA r : r.delta * SignedQty(r),
                          LAMBDA r : r.date = d /\ Recognised(r))
            /\ run.full.net_greeks_df[d].net_vega
                 = RowSum(LAMBDA r : r.vega * SignedQty(r),
                          LAMBDA r : r.date = d /\ Recognised(r))

\* ---- C8
WindowDates ==
    {d \in LogDates : date_range[1] <= d /\ d <= date_range[2]}

\* C8: the change report is suppressed exactly when the inspection date is the
\* earliest date of the log, and then the window metrics, the positions
\* snapshot and the net-exposure series are still produced; an empty window
\* stops the run before any metric, report or snapshot is produced.
C8_NoPredecessorIsLocal ==
    Ran =>
      /\ pc = "stopped" <=> WindowDates = {}
      /\ pc = "stopped" => views = {"error_no_equity"} /\ run.window = NoWindow
      /\ pc = "rendered" =>
            /\ isna(run.window.changes) <=> run.window.inspect_date = FirstDate
            /\ "changes_info" \in views <=> run.window.inspect_date = FirstDate
            /\ "changes_table" \in views <=> run.window.inspect_date # FirstDate
            /\ {"summary_metrics", "positions_table", "net_delta_chart",
                "net_vega_chart"} \subseteq views
            /\ run.window.equity_rebased # Unset
            /\ run.window.pos_today # <<>>
            /\ \A i \in DOMAIN run.window.pos_today :
                  run.window.pos_today[i].ticker
                    \in TickersOn(run.window.inspect_date)
            /\ DOMAIN run.window.net_greeks_window = WindowDates

\* the report is suppressed for the earliest date, selected in a window of
\* several dates, all of whose tickers are new on the last date
C8_Witness ==
    /\ pc = "rendered"
    /\ "changes_info" \in views
    /\ Cardinality(WindowDates) > 1
    /\ event # <<>>

\* ---- C9
\* C9: over a non-empty window, equity_window[last] - equity_window[first]
\* = cum_total_pnl[last] - daily_total_pnl[first]; so the total return % equals
\* the final cumulative total PnL % exactly when the first window date's total
\* PnL is 0, which it is when the window starts on the earliest date.  (Stated
\* as claimed; a window that starts at zero equity has no percentages.)
C9_ReturnVersusCumPnl ==
    pc = "rendered" =>
      LET w == run.window
          f == Min(DOMAIN w.equity_window)
          l == Max(DOMAIN w.equity_window)
      IN /\ w.equity_window[l] - w.equity_window[f]
              = w.cum_total_pnl[l] - w.daily_total_pnl[f]
         /\ FEq(w.total_return_pct, w.cum_total_pnl_pct_leg[l])
              <=> w.daily_total_pnl[f] = 0
         /\ f = FirstDate => w.daily_total_pnl[f] = 0

\* ---- C10
\* C10: for an inspection date D that is not the earliest, when every ticker
\* of D has a row on D's predecessor date and every (date, ticker) pair has a
\* single price, the value_change of the report's rows sum to the portfolio
\* total_pnl of D.  (Stated as claimed; it fails for rows of an unrecognised
\* type, which the report signs +1 and the PnL engine leaves out.)
C10_ReportAgreesWithPnl ==
    HasReport =>
      LET D == run.window.inspect_date
          P == Report.prev_date
      IN (/\ TickersOn(D) \subseteq TickersOn(P)
          /\ \A d \in LogDates : \A t \in TickersOn(d) : SinglePrice(d, t))
         => ReportSum("value_change") = run.full.daily_total_pnl_all[D]
====
